---------------------------- MODULE Spec2Model ----------------------------
(***************************************************************************)
(* A model of the Trigger Fix tool (scripts/core.py, scripts/cli.py,       *)
(* scripts/config.py): loading of the position and event logs, the         *)
(* sliding-window gap detector, the path-following interpolator and the    *)
(* serialisation of the combined event log.                                *)
(*                                                                         *)
(* Numbers.  The program computes in float64.  The model computes in exact *)
(* rationals <<n, d>> (d > 0, lowest terms) extended with the three        *)
(* non-finite float values the program can produce: <<1, 0>> (+inf),       *)
(* <<-1, 0>> (-inf) and <<0, 0>> (nan); the rounding error of float64 is   *)
(* not modelled there.  The conversions between GPS time and datetime and  *)
(* between degrees-minutes-seconds and decimal degrees are computed in     *)
(* float64 bit for bit (mantissas of 53 bits, round to nearest even): in   *)
(* them the rounding decides the result.  The values of the model's logs   *)
(* have few binary places, so they pass between the two forms unchanged.   *)
(*                                                                         *)
(* Geometry.  Distances are central angles in degrees, that is, metres in  *)
(* the unit R*pi/180; every comparison, quotient and sum of distances the  *)
(* program makes is independent of that unit.  haversine_distance is       *)
(* modelled where the haversine formula has an exact rational value:       *)
(* on one meridian, where a = sin^2(dlat/2) and c = 2*asin(sqrt(a)) =      *)
(* |dlat|; from or to the north pole, where c = 90 - lat of the other      *)
(* point; and between (0, 0) and (45, 45), where cos c = cos 45 * cos 45 = *)
(* 1/2 and c = 60.  The flights and tracks of the model lie on the         *)
(* meridian 77 E; one interpolation runs from (0, 0) to the pole.          *)
(***************************************************************************)
EXTENDS Integers, Sequences, FiniteSets, TLC

VARIABLES
    config,             \* self.config of the TriggerFixer
    input_format,       \* self.input_format: "unset" until load_position_data
    pos_data,           \* the position track returned by load_position_data
    events_data,        \* the trigger sequence returned by load_events_data
    interpolated_data,  \* the value returned by find_missing_triggers
    output,             \* the value returned by the last export operation
    call,               \* the arguments of the operation that was applied
    pc                  \* which operation was applied last

vars == <<config, input_format, pos_data, events_data, interpolated_data,
          output, call, pc>>

-----------------------------------------------------------------------------
(* float64 values as extended rationals *)

Abs(x) == IF x < 0 THEN -x ELSE x

Sign(x) == IF x < 0 THEN -1 ELSE IF x > 0 THEN 1 ELSE 0

RECURSIVE Gcd(_, _)
Gcd(a, b) == IF b = 0 THEN a ELSE Gcd(b, a % b)

\* the rational n/d in lowest terms with a positive denominator (d # 0)
Q(n, d) ==
    LET g == Gcd(Abs(n), Abs(d))
        s == IF d < 0 THEN -1 ELSE 1
    IN  <<(s * n) \div g, (s * d) \div g>>

Num(n) == <<n, 1>>

NaN == <<0, 0>>
Inf(s) == <<s, 0>>

IsFinite(x) == x[2] # 0
IsNaN(x) == x = NaN

RNeg(x) == <<-x[1], x[2]>>

RAdd(x, y) ==
    IF IsFinite(x) /\ IsFinite(y)
    THEN Q(x[1] * y[2] + y[1] * x[2], x[2] * y[2])
    ELSE IF IsNaN(x) \/ IsNaN(y) THEN NaN
    ELSE IF IsFinite(x) THEN y
    ELSE IF IsFinite(y) THEN x
    ELSE IF x = y THEN x ELSE NaN

RSub(x, y) == RAdd(x, RNeg(y))

RMul(x, y) ==
    IF IsFinite(x) /\ IsFinite(y)
    THEN Q(x[1] * y[1], x[2] * y[2])
    ELSE IF IsNaN(x) \/ IsNaN(y) THEN NaN
    ELSE IF x[1] = 0 \/ y[1] = 0 THEN NaN
    ELSE Inf(Sign(x[1]) * Sign(y[1]))

\* numpy float64 division: x/0 is +-inf, 0/0 is nan, no exception is raised
RDiv(x, y) ==
    IF IsFinite(x) /\ IsFinite(y)
    THEN IF y[1] # 0 THEN Q(x[1] * y[2], x[2] * y[1])
         ELSE IF x[1] = 0 THEN NaN ELSE Inf(Sign(x[1]))
    ELSE IF IsNaN(x) \/ IsNaN(y) THEN NaN
    ELSE IF IsFinite(x) THEN Num(0)
    ELSE IF IsFinite(y) THEN Inf(Sign(x[1]) * (IF y[1] < 0 THEN -1 ELSE 1))
    ELSE NaN

\* comparisons: every comparison with nan is false
RLt(x, y) ==
    IF IsFinite(x) /\ IsFinite(y) THEN x[1] * y[2] < y[1] * x[2]
    ELSE IF IsNaN(x) \/ IsNaN(y) THEN FALSE
    ELSE IF IsFinite(x) THEN y[1] > 0
    ELSE IF IsFinite(y) THEN x[1] < 0
    ELSE x[1] < y[1]

RLe(x, y) == RLt(x, y) \/ (~IsNaN(x) /\ x = y)
RGt(x, y) == RLt(y, x)
RGe(x, y) == RLe(y, x)

RAbs(x) == <<Abs(x[1]), x[2]>>

\* floor of a finite rational
Floor(x) == x[1] \div x[2]

\* int(x) of Python: truncation toward zero of a finite value
Trunc(x) == IF x[1] >= 0 THEN x[1] \div x[2] ELSE -((-x[1]) \div x[2])

\* round(x) of a finite float: to the nearest integer, a tie to the even one
RoundHalfEven(x) ==
    LET f == Floor(x)
        r == RSub(x, Num(f))
    IN  IF RLt(r, Q(1, 2)) THEN f
        ELSE IF RGt(r, Q(1, 2)) THEN f + 1
        ELSE IF f % 2 = 0 THEN f ELSE f + 1

-----------------------------------------------------------------------------
(* DistanceEngine *)

\* haversine_distance in units of R*pi/180 m, where its value is rational:
\*   lon1 = lon2               a = sin^2(dlat/2), c = |dlat|
\*   one point is (90, lon)    cos c = sin(lat of the other), c = 90 - lat
\*   (0, 0) and (45, 45)       cos c = cos 45 * cos 45 = 1/2, c = 60
\* A non-finite argument gives nan (np.sin of an infinity is nan).
haversine_distance(lat1, lon1, lat2, lon2) ==
    IF ~(IsFinite(lat1) /\ IsFinite(lon1) /\ IsFinite(lat2) /\ IsFinite(lon2))
    THEN NaN
    ELSE CASE lon1 = lon2 -> RAbs(RSub(lat2, lat1))
           [] lon1 # lon2 /\ lat2 = Num(90) -> RSub(Num(90), lat1)
           [] lon1 # lon2 /\ lat1 = Num(90) /\ lat2 # Num(90) ->
                  RSub(Num(90), lat2)
           [] {<<lat1, lon1>>, <<lat2, lon2>>} =
              {<<Num(0), Num(0)>>, <<Num(45), Num(45)>>} -> Num(60)

-----------------------------------------------------------------------------
(* sorting and the median *)

\* DataFrame.sort_values puts nan last; the other values ascend
KeyBefore(x, y) == ~IsNaN(x) /\ (IsNaN(y) \/ RLt(x, y))

\* s ordered by ahead, the set of the pairs <<i, j>> with the row s[i]
\* strictly ahead of the row s[j]; rows neither of which is ahead of the
\* other stay in their order of s
SortBy(s, ahead) ==
    LET n == Len(s)
        First(j, i) == \/ <<j, i>> \in ahead
                       \/ (<<i, j>> \notin ahead /\ j < i)
        rank == [i \in 1..n |-> Cardinality({j \in 1..n : First(j, i)}) + 1]
    IN  [r \in 1..n |-> s[CHOOSE i \in 1..n : rank[i] = r]]

\* the pairs of indices of s
IndexPairs(s) == (1..Len(s)) \X (1..Len(s))

\* the mutant of sort_by_seconds: the sequence is left in its given order
sort_not(s) == s

\* DataFrame.sort_values("seconds")
sort_by_seconds(s) ==
    SortBy(s, {p \in IndexPairs(s) :
                   KeyBefore(s[p[1]].seconds, s[p[2]].seconds)})

\* np.median of a non-empty list of finite values
np_median(values) ==
    LET s == SortBy(values, {p \in IndexPairs(values) :
                                KeyBefore(values[p[1]], values[p[2]])})
        n == Len(s)
    IN  IF n % 2 = 1 THEN s[(n \div 2) + 1]
        ELSE RDiv(RAdd(s[n \div 2], s[(n \div 2) + 1]), Num(2))

-----------------------------------------------------------------------------
(* PathInterpolator: interpolate_positions_by_distance *)

\* x + ratio * (y - x)
Lerp(x, y, ratio) == RAdd(x, RMul(ratio, RSub(y, x)))

\* the position samples between the start and end times, by time
relevant_pos_data(start_pos, end_pos, pos) ==
    LET InRange(p) == /\ RGe(p.seconds, start_pos.seconds)
                      /\ RLe(p.seconds, end_pos.seconds)
    IN  sort_by_seconds(SelectSeq(pos, InRange))

\* the mutant of fallback_distance: every point is measured from the start
fallback_distance_from_start(start_pos, segment_distance, prev, i, lat, lon) ==
    haversine_distance(start_pos.lat, start_pos.lon, lat, lon)

\* distance_from_prev of the i-th point of the fallback; prev is result[-1]
fallback_distance(start_pos, segment_distance, prev, i, lat, lon) ==
    IF i = 1 THEN segment_distance
    ELSE haversine_distance(prev.lat, prev.lon, lat, lon)

\* the mutant of fallback_ratio: the ratio i/N
fallback_ratio_over_n(i, num_points) == Q(i, num_points)

fallback_ratio(i, num_points) == Q(i, num_points + 1)

\* the linear interpolation taken with fewer than 2 samples in range
fallback_points(start_pos, end_pos, num_points, segment_distance) ==
    LET at(i) ==
            LET ratio == fallback_ratio(i, num_points)
            IN  [lat     |-> Lerp(start_pos.lat, end_pos.lat, ratio),
                 lon     |-> Lerp(start_pos.lon, end_pos.lon, ratio),
                 height  |-> Lerp(start_pos.height, end_pos.height, ratio),
                 seconds |-> Lerp(start_pos.seconds, end_pos.seconds, ratio)]
    IN  [i \in 1..num_points |->
            LET p == at(i)
            IN  [lat |-> p.lat, lon |-> p.lon, height |-> p.height,
                 seconds |-> p.seconds,
                 distance_from_prev |->
                     fallback_distance(start_pos, segment_distance,
                                       IF i = 1 THEN start_pos ELSE at(i - 1),
                                       i, p.lat, p.lon)]]

\* cumulative_distances[k] of the program is cumulative_distances(rel)[k + 1]
cumulative_distances(rel) ==
    LET cum[k \in 1..Len(rel)] ==
            IF k = 1 THEN Num(0)
            ELSE RAdd(cum[k - 1],
                      haversine_distance(rel[k - 1].lat, rel[k - 1].lon,
                                         rel[k].lat, rel[k].lon))
    IN  [k \in 1..Len(rel) |-> cum[k]]

\* the mutant of scan_from: the scan looks at the next cumulative distance
RECURSIVE scan_from_next(_, _, _)
scan_from_next(cum, target, idx) ==
    IF idx < Len(cum) - 1 /\ RLt(cum[idx + 2], target)
    THEN scan_from_next(cum, target, idx + 1)
    ELSE idx

\* the while loop: idx advances while it is not the last index and
\* cumulative_distances[idx] < target_distance
RECURSIVE scan_from(_, _, _)
scan_from(cum, target, idx) ==
    IF idx < Len(cum) - 1 /\ RLt(cum[idx + 1], target)
    THEN scan_from(cum, target, idx + 1)
    ELSE idx

path_ratio(target, prev_dist, next_dist) ==
    RDiv(RSub(target, prev_dist), RSub(next_dist, prev_dist))

\* one pass of the for loop of the path-following branch: the target, the
\* index found, the ratio (nan when idx = 0, where none is computed) and the
\* interpolated point without its distance_from_prev
path_step(rel, cum, total_distance, num_points, i) ==
    LET target == RDiv(RMul(Num(i), total_distance), Num(num_points + 1))
        idx    == scan_from(cum, target, 0)
    IN  IF idx = 0
        THEN [target |-> target, idx |-> 0, ratio |-> NaN,
              lat |-> rel[1].lat, lon |-> rel[1].lon,
              height |-> rel[1].height, seconds |-> rel[1].seconds]
        ELSE LET ratio == path_ratio(target, cum[idx], cum[idx + 1])
                 prev  == rel[idx]
                 next  == rel[idx + 1]
             IN  [target |-> target, idx |-> idx, ratio |-> ratio,
                  lat     |-> Lerp(prev.lat, next.lat, ratio),
                  lon     |-> Lerp(prev.lon, next.lon, ratio),
                  height  |-> Lerp(prev.height, next.height, ratio),
                  seconds |-> Lerp(prev.seconds, next.seconds, ratio)]

path_distance_from_prev(start_pos, last_point, p) ==
    haversine_distance(last_point.lat, last_point.lon, p.lat, p.lon)

\* the value returned: the list of points ("points"), with the branch taken,
\* the samples selected and each pass's target, idx and ratio beside it
interpolate_positions_by_distance(start_pos, end_pos, num_points, pos) ==
    LET total_distance ==
            haversine_distance(start_pos.lat, start_pos.lon,
                               end_pos.lat, end_pos.lon)
        segment_distance == RDiv(total_distance, Num(num_points + 1))
        rel == relevant_pos_data(start_pos, end_pos, pos)
    IN  IF Len(rel) < 2
        THEN [branch |-> "fallback", relevant |-> rel, cum |-> <<>>,
              steps  |-> <<>>,
              points |-> fallback_points(start_pos, end_pos, num_points,
                                         segment_distance)]
        ELSE LET cum == cumulative_distances(rel)
                 steps == [i \in 1..num_points |->
                              path_step(rel, cum, total_distance,
                                        num_points, i)]
             IN  [branch |-> "path", relevant |-> rel, cum |-> cum,
                  steps  |-> [i \in 1..num_points |->
                                 [target |-> steps[i].target,
                                  idx    |-> steps[i].idx,
                                  ratio  |-> steps[i].ratio]],
                  points |-> [i \in 1..num_points |->
                      [lat |-> steps[i].lat, lon |-> steps[i].lon,
                       height |-> steps[i].height,
                       seconds |-> steps[i].seconds,
                       distance_from_prev |->
                           path_distance_from_prev(
                               start_pos,
                               IF i = 1 THEN start_pos ELSE steps[i - 1],
                               steps[i])]]]

-----------------------------------------------------------------------------
(* GapDetector: find_missing_triggers *)

\* distances[i] of the program is consecutive_distances(ev)[i + 1]
consecutive_distances(ev) ==
    [i \in 1..(Len(ev) - 1) |->
        haversine_distance(ev[i].lat, ev[i].lon, ev[i + 1].lat, ev[i + 1].lon)]

\* the mutant of num_missing_of: the -1 is forgotten
num_missing_plus_one(current_distance, median_distance) ==
    RoundHalfEven(RDiv(current_distance, median_distance))

\* the mutant of num_missing_of: int() without round()
num_missing_truncated(current_distance, median_distance) ==
    Trunc(RDiv(current_distance, median_distance)) - 1

\* int(round(current_distance / median_distance)) - 1, the quotient finite
num_missing_of(current_distance, median_distance) ==
    RoundHalfEven(RDiv(current_distance, median_distance)) - 1

\* the mutant of is_gap: the guard num_missing > 0 admits zero
is_gap_or_zero(num_missing) == num_missing >= 0

\* the guard of the interpolation
is_gap(num_missing) == num_missing > 0

\* start_pos and end_pos: the event at index idx (from 1) of the sorted events
position_of(ev, idx) ==
    [lat |-> ev[idx].lat, lon |-> ev[idx].lon,
     height |-> ev[idx].height, seconds |-> ev[idx].seconds]

\* the mutant of gap_start: the gap is placed at the window's first distance
gap_start_at_window(i, window_size) == i

\* the mutant of gap_start: the window's start i is forgotten
gap_start_fixed(i, window_size) == window_size

\* start_idx of the window that starts at i
gap_start(i, window_size) == i + window_size

is_flagged(current_distance, max_distance) ==
    RGt(current_distance, max_distance)

\* One pass of the window loop, for the window that starts at i (from 0):
\*   kind "none"     nothing follows the window, or what follows is not flagged
\*   kind "error"    int(round(inf or nan)) raises
\*   kind "dropped"  flagged, num_missing <= 0
\*   kind "gap"      flagged and interpolated
window_pass(ev, distances, pos, cfg, i) ==
    LET W == cfg.window_size
        dist_window == SubSeq(distances, i + 1, i + W)
        median_distance == np_median(dist_window)
        max_distance == RMul(median_distance, cfg.max_interval_factor)
        base == [window |-> i, start_idx |-> gap_start(i, W),
                 median_distance |-> median_distance]
    IN  IF ~(i + W < Len(distances))
        THEN [kind |-> "none"] @@ base
        ELSE LET current_distance == distances[i + W + 1]
             IN  IF ~is_flagged(current_distance, max_distance)
                 THEN [kind |-> "none"] @@ base
                 ELSE IF ~IsFinite(RDiv(current_distance, median_distance))
                 THEN [kind |-> "error",
                       current_distance |-> current_distance] @@ base
                 ELSE LET num_missing ==
                              num_missing_of(current_distance, median_distance)
                      IN  IF ~is_gap(num_missing)
                          THEN [kind |-> "dropped",
                                current_distance |-> current_distance,
                                num_missing |-> num_missing] @@ base
                          ELSE LET start_idx == gap_start(i, W)
                               IN  [kind |-> "gap",
                                    current_distance |-> current_distance,
                                    num_missing |-> num_missing,
                                    week |-> ev[start_idx + 1].week,
                                    start_pos |-> position_of(ev, start_idx + 1),
                                    end_pos |-> position_of(ev, start_idx + 2),
                                    result |->
                                      interpolate_positions_by_distance(
                                        position_of(ev, start_idx + 1),
                                        position_of(ev, start_idx + 2),
                                        num_missing, pos)] @@ base

\* the mutant of triggers_of: the append is outside the loop over the points
triggers_of_last(pass) ==
    LET last == pass.result.points[Len(pass.result.points)]
    IN  <<[week |-> pass.week, seconds |-> last.seconds,
           lat |-> last.lat, lon |-> last.lon, height |-> last.height,
           interpolated |-> TRUE,
           distance_from_prev |-> last.distance_from_prev]>>

\* the interpolated triggers appended for one gap
triggers_of(pass) ==
    [k \in 1..Len(pass.result.points) |->
        [week |-> pass.week,
         seconds |-> pass.result.points[k].seconds,
         lat |-> pass.result.points[k].lat,
         lon |-> pass.result.points[k].lon,
         height |-> pass.result.points[k].height,
         interpolated |-> TRUE,
         distance_from_prev |-> pass.result.points[k].distance_from_prev]]

\* the window loop from window i on; acc holds what the earlier windows left
RECURSIVE window_loop(_, _, _, _, _, _)
window_loop(ev, distances, pos, cfg, i, acc) ==
    IF i > Len(distances) - cfg.window_size
    THEN acc
    ELSE LET pass == window_pass(ev, distances, pos, cfg, i)
         IN  IF pass.kind = "error"
             THEN [acc EXCEPT !.error = TRUE,
                              !.passes = Append(@, pass)]
             ELSE window_loop(ev, distances, pos, cfg, i + 1,
                    [acc EXCEPT
                       !.passes = IF pass.kind = "none" THEN @
                                  ELSE Append(@, pass),
                       !.triggers = IF pass.kind = "gap"
                                    THEN @ \o triggers_of(pass) ELSE @])

\* The value returned ("triggers": the rows of the DataFrame), or error = TRUE
\* when the call raises; beside it the sorted events, the distances and
\* the flagged passes of the window loop in the order they were made.
find_missing_triggers(events, pos, cfg) ==
    LET ev == sort_by_seconds(events)
        distances == consecutive_distances(ev)
    IN  window_loop(ev, distances, pos, cfg, 0,
                    [error |-> FALSE, sorted |-> ev, distances |-> distances,
                     passes |-> <<>>, triggers |-> <<>>])

-----------------------------------------------------------------------------
(* float64 values bit for bit, for the conversions of GeoConvert, where the
   rounding of float64 decides the result.  A natural number of any size is
   the sequence of its digits in base Limb, the lowest digit first and the
   highest digit not 0 (<<>> is 0).  A float is [m, e], the value m * 2^e
   with m of exactly Precision bits, or m = <<>> for 0.0; the floats of the
   conversions are finite, not negative and in the normal range. *)

Limb == 1024
LimbBits == 10
Precision == 53

RECURSIVE Pow2(_)
Pow2(k) == IF k = 0 THEN 1 ELSE 2 * Pow2(k - 1)

RECURSIVE IntBits(_)
IntBits(n) == IF n = 0 THEN 0 ELSE 1 + IntBits(n \div 2)

RECURSIVE NNorm(_)
NNorm(a) ==
    IF a # <<>> /\ a[Len(a)] = 0 THEN NNorm(SubSeq(a, 1, Len(a) - 1)) ELSE a

RECURSIVE NFromInt(_)
NFromInt(n) == IF n = 0 THEN <<>> ELSE <<n % Limb>> \o NFromInt(n \div Limb)

\* the value of a natural below 2^31
RECURSIVE NToInt(_)
NToInt(a) == IF a = <<>> THEN 0 ELSE a[1] + Limb * NToInt(Tail(a))

RECURSIVE NAddC(_, _, _)
NAddC(a, b, carry) ==
    IF a = <<>> /\ b = <<>> THEN NFromInt(carry)
    ELSE LET x == (IF a = <<>> THEN 0 ELSE a[1])
                  + (IF b = <<>> THEN 0 ELSE b[1]) + carry
         IN  <<x % Limb>> \o NAddC(IF a = <<>> THEN <<>> ELSE Tail(a),
                                   IF b = <<>> THEN <<>> ELSE Tail(b),
                                   x \div Limb)

NAdd(a, b) == NAddC(a, b, 0)

RECURSIVE NSubB(_, _, _)
NSubB(a, b, borrow) ==
    IF a = <<>> THEN <<>>
    ELSE LET x == a[1] - (IF b = <<>> THEN 0 ELSE b[1]) - borrow
         IN  <<x % Limb>> \o NSubB(Tail(a),
                                   IF b = <<>> THEN <<>> ELSE Tail(b),
                                   IF x < 0 THEN 1 ELSE 0)

\* a - b for a >= b
NSub(a, b) == NNorm(NSubB(a, b, 0))

RECURSIVE NMulC(_, _, _)
NMulC(a, c, carry) ==
    IF a = <<>> THEN NFromInt(carry)
    ELSE LET x == a[1] * c + carry
         IN  <<x % Limb>> \o NMulC(Tail(a), c, x \div Limb)

\* a * c for an integer 0 <= c < 2^20
NMul(a, c) == IF c = 0 THEN <<>> ELSE NMulC(a, c, 0)

\* quotient (not normalised) and remainder of a by an integer 0 < c < 2^20
RECURSIVE NDivModC(_, _)
NDivModC(a, c) ==
    IF a = <<>> THEN [q |-> <<>>, r |-> 0]
    ELSE LET high == NDivModC(Tail(a), c)
             x == high.r * Limb + a[1]
         IN  [q |-> <<x \div c>> \o high.q, r |-> x % c]

NDivMod(a, c) ==
    LET d == NDivModC(a, c) IN [q |-> NNorm(d.q), r |-> d.r]

\* -1, 0, 1 as a < b, a = b, a > b
RECURSIVE NCmp(_, _)
NCmp(a, b) ==
    IF Len(a) # Len(b) THEN (IF Len(a) < Len(b) THEN -1 ELSE 1)
    ELSE IF a = <<>> THEN 0
    ELSE LET k == Len(a)
         IN  IF a[k] # b[k] THEN (IF a[k] < b[k] THEN -1 ELSE 1)
             ELSE NCmp(NNorm(SubSeq(a, 1, k - 1)), NNorm(SubSeq(b, 1, k - 1)))

\* the number of bits of a
NBits(a) ==
    IF a = <<>> THEN 0 ELSE LimbBits * (Len(a) - 1) + IntBits(a[Len(a)])

\* a * 2^n
NShl(a, n) ==
    IF a = <<>> THEN <<>>
    ELSE [i \in 1..(n \div LimbBits) |-> 0] \o NMul(a, Pow2(n % LimbBits))

\* a \div 2^n
NShr(a, n) ==
    IF n \div LimbBits >= Len(a) THEN <<>>
    ELSE NDivMod(SubSeq(a, n \div LimbBits + 1, Len(a)),
                 Pow2(n % LimbBits)).q

\* the number of 0 bits at the low end of a # 0
RECURSIVE NLowZeros(_)
NLowZeros(a) ==
    IF a[1] = 0 THEN LimbBits + NLowZeros(Tail(a))
    ELSE IF a[1] % 2 = 0 THEN 1 + NLowZeros(<<a[1] \div 2>>)
    ELSE 0

FZero == [m |-> <<>>, e |-> 0]

\* r * 2^e for a mantissa r of Precision bits, or of one bit more (2^53)
FCarry(r, e) ==
    IF NBits(r) > Precision THEN [m |-> NShr(r, 1), e |-> e + 1]
    ELSE [m |-> r, e |-> e]

\* q * 2^e, q one up when the bits dropped are more than half of its last
\* place (half = 1), or half of it (half = 0) and q is odd
FNearest(q, half, e) ==
    FCarry(IF half > 0 \/ (half = 0 /\ q[1] % 2 = 1)
           THEN NAdd(q, <<1>>) ELSE q, e)

\* n * 2^e rounded to q = n \div 2^k
FDrop(n, e, k, q) ==
    FNearest(q, NCmp(NSub(n, NShl(q, k)), NShl(<<1>>, k - 1)), e + k)

\* n * 2^e for n of L bits
FRoundBits(n, e, L) ==
    IF L = 0 THEN FZero
    ELSE IF L <= Precision
    THEN [m |-> NShl(n, Precision - L), e |-> e - (Precision - L)]
    ELSE FDrop(n, e, L - Precision, NShr(n, L - Precision))

\* the float nearest to n * 2^e, a tie going to the even mantissa
FRound(n, e) == FRoundBits(n, e, NBits(n))

MinExp(x, y) ==
    IF x.m = <<>> THEN y.e
    ELSE IF y.m = <<>> THEN x.e
    ELSE IF x.e < y.e THEN x.e ELSE y.e

\* the mantissa of x at the exponent e <= x.e
FAt(x, e) == IF x.m = <<>> THEN <<>> ELSE NShl(x.m, x.e - e)

FCmp(x, y) == NCmp(FAt(x, MinExp(x, y)), FAt(y, MinExp(x, y)))

FLe(x, y) == FCmp(x, y) <= 0

FLt(x, y) == FCmp(x, y) < 0

\* x + y (x + 0.0 is x)
FAdd(x, y) ==
    IF y.m = <<>> THEN x
    ELSE IF x.m = <<>> THEN y
    ELSE FRound(NAdd(FAt(x, MinExp(x, y)), FAt(y, MinExp(x, y))),
                MinExp(x, y))

\* x - y for x >= y (x - 0.0 is x, x - x is 0.0)
FSub(x, y) ==
    IF y.m = <<>> THEN x
    ELSE IF x = y THEN FZero
    ELSE FRound(NSub(FAt(x, MinExp(x, y)), FAt(y, MinExp(x, y))),
                MinExp(x, y))

\* x * c for an integer 0 <= c < 2^20
FMul(x, c) == IF x.m = <<>> THEN FZero ELSE FRound(NMul(x.m, c), x.e)

\* the float of a quotient d.q and one more bit for a remainder d.r # 0
FQuotient(d, e) ==
    FRound(NAdd(NMul(d.q, 2), IF d.r = 0 THEN <<>> ELSE <<1>>), e)

\* x / c for an integer 0 < c < 2^20: the quotient to 2 bits or more beyond
\* the precision (x / 1 is x)
FDiv(x, c) ==
    IF x.m = <<>> \/ c = 1 THEN x
    ELSE FQuotient(NDivMod(NShl(x.m, 22), c), x.e - 23)

\* float(n) of an integer n >= 0
FFromInt(n) == FRound(NFromInt(n), 0)

\* n * 2^(-k), exactly
Dyadic(n, k) == FRound(NFromInt(n), 0 - k)

\* int(x): the integer part of x, below 2^31
FTrunc(x) ==
    IF x.m = <<>> THEN 0
    ELSE IF x.e >= 0 THEN NToInt(NShl(x.m, x.e))
    ELSE NToInt(NShr(x.m, 0 - x.e))

\* t or t + 1 as twice the fraction is below 1, above 1, or 1 (to the even)
HalfEven(t, twice) ==
    IF twice > 0 \/ (twice = 0 /\ t % 2 = 1) THEN t + 1 ELSE t

\* round(x): the nearest integer, a tie going to the even one
FRoundFrom(x, t) ==
    HalfEven(t, FCmp(FMul(FSub(x, FFromInt(t)), 2), FFromInt(1)))

FRoundHalfEven(x) == IF x.m = <<>> THEN 0 ELSE FRoundFrom(x, FTrunc(x))

\* the float of the rational x >= 0 (float("...") of its decimal numeral)
Float(x) == FDiv(FFromInt(x[1]), x[2])

\* m * 2^e without the k zero bits at the low end of m, k <= -e
ExactShift(x, k) == Q(NToInt(NShr(x.m, k)), Pow2(0 - x.e - k))

Min(a, b) == IF a < b THEN a ELSE b

\* the rational of the float x, where the 32 bits of the model's integers
\* hold its numerator and denominator
Exact(x) ==
    IF x.m = <<>> THEN Num(0)
    ELSE IF x.e >= 0 THEN Num(NToInt(NShl(x.m, x.e)))
    ELSE ExactShift(x, Min(NLowZeros(x.m), 0 - x.e))

RECURSIVE NTimesPow10(_, _)
NTimesPow10(a, p) == IF p = 0 THEN a ELSE NTimesPow10(NMul(a, 10), p - 1)

\* |a - b|
NDiff(a, b) == IF NCmp(a, b) >= 0 THEN NSub(a, b) ELSE NSub(b, a)

\* diff * 2^e <= 10^(-p)
NWithin(diff, e, p) ==
    \/ diff = <<>>
    \/ e < 0 /\ NCmp(NTimesPow10(diff, p), NShl(<<1>>, 0 - e)) <= 0

\* |x - y| <= 10^(-p), exactly
FWithin(x, y, p) ==
    NWithin(NDiff(FAt(x, MinExp(x, y)), FAt(y, MinExp(x, y))),
            MinExp(x, y), p)

-----------------------------------------------------------------------------
(* GeoConvert *)

SecondsPerWeek == 604800
SecondsPerDay == 86400

MicrosPerSecond == 1000000

\* timedelta(weeks = week, seconds = seconds) for `whole` seconds and the
\* fraction rounded to `micros` microseconds, at most 10^6: the microseconds
\* carry into the seconds and the seconds into the days
timedelta(week, whole, micros) ==
    [days |-> 7 * week + (whole + micros \div MicrosPerSecond)
                             \div SecondsPerDay,
     seconds |-> (whole + micros \div MicrosPerSecond) % SecondsPerDay,
     microseconds |-> micros % MicrosPerSecond]

\* timedelta takes the whole seconds of a float as they are and rounds
\* 1e6 * the fraction to whole microseconds (a tie to the even one)
timedelta_of(week, seconds, whole) ==
    timedelta(week, whole,
              FRoundHalfEven(FMul(FSub(seconds, FFromInt(whole)),
                                  MicrosPerSecond)))

\* gps_epoch + timedelta(weeks = week, seconds = seconds) for a float of
\* seconds.  A datetime is the timedelta since the GPS epoch 1980-01-06,
\* [days, seconds, microseconds].
gps_to_datetime(week, seconds) == timedelta_of(week, seconds, FTrunc(seconds))

\* d + m / 60 + s / 3600 for integers d, m and a float s
dms_to_decimal(d, m, s) ==
    FAdd(FAdd(FFromInt(d), FDiv(FFromInt(m), 60)), FDiv(s, 3600))

\* the mutant of datetime_to_gps: the microseconds are left out
datetime_to_gps_whole(delta) ==
    [week    |-> delta.days \div 7,
     seconds |-> FFromInt((delta.days % 7) * SecondsPerDay + delta.seconds)]

\* delta = dt - gps_epoch as the timedelta's days, seconds and microseconds
datetime_to_gps(delta) ==
    [week    |-> delta.days \div 7,
     seconds |-> FAdd(FFromInt((delta.days % 7) * SecondsPerDay
                               + delta.seconds),
                      FDiv(FFromInt(delta.microseconds), MicrosPerSecond))]

\* m = int(m_float) and s = (m_float - m) * 60
minutes_to_ms(d, m_float, m) ==
    [d |-> d, m |-> m, s |-> FMul(FSub(m_float, FFromInt(m)), 60)]

\* m_float = (decimal - d) * 60
degrees_to_dms(d, m_float) == minutes_to_ms(d, m_float, FTrunc(m_float))

\* d = int(decimal)
decimal_from(decimal, d) ==
    degrees_to_dms(d, FMul(FSub(decimal, FFromInt(d)), 60))

\* d, m of int() and the float s of a float decimal >= 0
decimal_to_dms(decimal) == decimal_from(decimal, FTrunc(decimal))

-----------------------------------------------------------------------------
(* RecordParser.  A file is [header, lines]; header is the format's name the
   header comment carries ("deg" for latitude(deg), "dms" for latitude(d'"),
   "none" for neither).  A line is a record with a kind:
     "comment"  a line that starts with %
     "short"    a line of fewer than 5 tokens, the first without a /
     "gps"      week seconds lat_d lat_m lat_s lon_d lon_m lon_s [height]
     "calendar" YYYY/MM/DD HH:MM:SS.sss lat lon height                    *)

DataLines(file) ==
    SelectSeq(file.lines, LAMBDA l : l.kind \in {"gps", "calendar"})

\* the format load_position_data detects and stores in self.input_format
detect_format(file) ==
    LET is_decimal_header == file.header = "deg"
        is_dms_header == file.header = "dms"
        data_lines == SelectSeq(file.lines, LAMBDA l : l.kind # "comment")
        is_decimal_format ==
            IF is_decimal_header \/ is_dms_header THEN is_decimal_header
            ELSE data_lines # <<>> /\ data_lines[1].kind = "calendar"
    IN  IF is_decimal_format THEN "decimal" ELSE "dms"

\* the row of a line of the decimal format
decimal_line(l, gps, lat, lon) ==
    [week |-> gps.week, seconds |-> Exact(gps.seconds),
     lat_d |-> lat.d, lat_m |-> lat.m, lat_s |-> Exact(lat.s),
     lon_d |-> lon.d, lon_m |-> lon.m, lon_s |-> Exact(lon.s),
     height |-> l.height, lat |-> l.lat, lon |-> l.lon,
     timestamp |-> l.delta]

load_decimal_format(file) ==
    [k \in 1..Len(DataLines(file)) |->
        decimal_line(DataLines(file)[k],
                     datetime_to_gps(DataLines(file)[k].delta),
                     decimal_to_dms(Float(DataLines(file)[k].lat)),
                     decimal_to_dms(Float(DataLines(file)[k].lon)))]

\* the rows of the gps lines, in the order of the lines, with the timestamp
\* and the decimal latitude and longitude added
parse_gps_lines(lines) ==
    [k \in 1..Len(lines) |->
        LET l == lines[k]
        IN  [week |-> l.week, seconds |-> l.seconds,
             lat_d |-> l.lat_d, lat_m |-> l.lat_m, lat_s |-> l.lat_s,
             lon_d |-> l.lon_d, lon_m |-> l.lon_m, lon_s |-> l.lon_s,
             height |-> IF l.ntok > 8 THEN l.height ELSE Num(0),
             timestamp |-> gps_to_datetime(l.week, Float(l.seconds)),
             lat |-> Exact(dms_to_decimal(l.lat_d, l.lat_m, Float(l.lat_s))),
             lon |-> Exact(dms_to_decimal(l.lon_d, l.lon_m,
                                          Float(l.lon_s)))]]

load_dms_format(file) == parse_gps_lines(DataLines(file))

\* the rows load_position_data returns
load_position_data(file) ==
    IF detect_format(file) = "decimal"
    THEN load_decimal_format(file)
    ELSE load_dms_format(file)

\* the rows load_events_data returns: the event log is always read as DMS
load_events_data(file) ==
    parse_gps_lines(SelectSeq(file.lines, LAMBDA l : l.kind = "gps"))

-----------------------------------------------------------------------------
(* ResultAssembler *)

RECURSIVE Pow10(_)
Pow10(p) == IF p = 0 THEN 1 ELSE 10 * Pow10(p - 1)

\* f"{x:.pf}": x rounded to p decimal places (a value of at most p decimal
\* places is written as it is)
FormatFixed(x, p) ==
    IF ~IsFinite(x) \/ Pow10(p) % x[2] = 0 THEN x
    ELSE Q(RoundHalfEven(RMul(x, Num(Pow10(p)))), Pow10(p))

\* strftime("%H:%M:%S.%f")[:-3]: the time cut to milliseconds
CutToMillis(t) ==
    [days |-> t.days, seconds |-> t.seconds,
     milliseconds |-> t.microseconds \div 1000]

DmsColumns == {"lat_d", "lat_m", "lat_s", "lon_d", "lon_m", "lon_s"}

\* pd.concat of the events (interpolated = False) and the interpolated rows:
\* "nan" holds the columns a row has no value for (concat fills them with nan)
concat_events(events, triggers) ==
    [k \in 1..Len(events) |->
        [week |-> events[k].week, seconds |-> events[k].seconds,
         lat |-> events[k].lat, lon |-> events[k].lon,
         height |-> events[k].height, interpolated |-> FALSE,
         dms |-> [lat_d |-> events[k].lat_d, lat_m |-> events[k].lat_m,
                  lat_s |-> events[k].lat_s, lon_d |-> events[k].lon_d,
                  lon_m |-> events[k].lon_m, lon_s |-> events[k].lon_s],
         timestamp |-> events[k].timestamp,
         nan |-> {"distance_from_prev"}]]
    \o
    [k \in 1..Len(triggers) |->
        [week |-> triggers[k].week, seconds |-> triggers[k].seconds,
         lat |-> triggers[k].lat, lon |-> triggers[k].lon,
         height |-> triggers[k].height, interpolated |-> TRUE,
         dms |-> [lat_d |-> 0, lat_m |-> 0, lat_s |-> NaN,
                  lon_d |-> 0, lon_m |-> 0, lon_s |-> NaN],
         timestamp |-> NaN,
         nan |-> DmsColumns \cup {"timestamp"}]]

\* combined_df.sort_values(by=["week", "seconds"]) of main
cli_sort(rows) ==
    SortBy(rows, {p \in IndexPairs(rows) :
                      LET a == rows[p[1]]
                          b == rows[p[2]]
                      IN  \/ a.week < b.week
                          \/ /\ a.week = b.week
                             /\ KeyBefore(a.seconds, b.seconds)})

\* .sort_values("seconds") of format_for_events_export
export_sort(rows) == sort_by_seconds(rows)

decimal_row(event) ==
    [format |-> "decimal",
     date_time |-> CutToMillis(event.timestamp),
     lat |-> FormatFixed(event.lat, 9), lon |-> FormatFixed(event.lon, 9),
     height |-> FormatFixed(event.height, 4),
     Q |-> 5, ns |-> 0,
     interpolated |-> event.interpolated]

dms_row(event) ==
    [format |-> "dms",
     week |-> event.week, seconds |-> FormatFixed(event.seconds, 3),
     lat_d |-> event.dms.lat_d, lat_m |-> event.dms.lat_m,
     lat_s |-> FormatFixed(event.dms.lat_s, 9),
     lon_d |-> event.dms.lon_d, lon_m |-> event.dms.lon_m,
     lon_s |-> FormatFixed(event.dms.lon_s, 9),
     height |-> FormatFixed(event.height, 4),
     interpolated |-> event.interpolated]

\* the branch taken: hasattr(self, "input_format") and
\* self.input_format == "decimal"
export_format(format) == IF format = "decimal" THEN "decimal" ELSE "dms"

\* The text returned, as its format-specific header line ("header") and its
\* data rows, or error = TRUE when the call raises: strftime of a NaT
\* timestamp in the decimal branch, int() of a nan lat_d in the DMS branch.
format_for_events_export(events, triggers, format) ==
    LET combined == export_sort(concat_events(events, triggers))
        fmt == export_format(format)
        raises ==
            \E k \in 1..Len(combined) :
                IF fmt = "decimal" THEN "timestamp" \in combined[k].nan
                ELSE "lat_d" \in combined[k].nan
    IN  IF raises
        THEN [kind |-> "export", error |-> TRUE, format |-> fmt,
              header |-> fmt, added |-> Len(triggers), rows |-> <<>>]
        ELSE [kind |-> "export", error |-> FALSE, format |-> fmt,
              header |-> fmt, added |-> Len(triggers),
              rows |-> [k \in 1..Len(combined) |->
                           IF fmt = "decimal" THEN decimal_row(combined[k])
                           ELSE dms_row(combined[k])]]

\* the row main builds for an interpolated trigger: the decimal latitude and
\* longitude back to DMS
cli_interpolated_event(row) ==
    LET lat_d == Trunc(row.lat)
        lat_m == Trunc(RMul(RSub(row.lat, Num(lat_d)), Num(60)))
        lon_d == Trunc(row.lon)
        lon_m == Trunc(RMul(RSub(row.lon, Num(lon_d)), Num(60)))
    IN  [week |-> row.week, seconds |-> row.seconds,
         lat_d |-> lat_d, lat_m |-> lat_m,
         lat_s |-> RMul(RSub(RMul(RSub(row.lat, Num(lat_d)), Num(60)),
                             Num(lat_m)), Num(60)),
         lon_d |-> lon_d, lon_m |-> lon_m,
         lon_s |-> RMul(RSub(RMul(RSub(row.lon, Num(lon_d)), Num(60)),
                             Num(lon_m)), Num(60)),
         height |-> row.height, interpolated |-> TRUE]

cli_original_event(e) ==
    [week |-> e.week, seconds |-> e.seconds,
     lat_d |-> e.lat_d, lat_m |-> e.lat_m, lat_s |-> e.lat_s,
     lon_d |-> e.lon_d, lon_m |-> e.lon_m, lon_s |-> e.lon_s,
     height |-> e.height, interpolated |-> FALSE]

\* The combined events file main writes: nothing when no trigger was
\* interpolated; error = TRUE when int() of a non-finite latitude raises.
cli_combined_events(events, triggers) ==
    IF triggers = <<>>
    THEN [kind |-> "none"]
    ELSE IF \E k \in 1..Len(triggers) :
                ~IsFinite(triggers[k].lat) \/ ~IsFinite(triggers[k].lon)
    THEN [kind |-> "combined", error |-> TRUE, rows |-> <<>>]
    ELSE LET combined_df ==
                 [k \in 1..Len(events) |-> cli_original_event(events[k])]
                 \o [k \in 1..Len(triggers) |->
                        cli_interpolated_event(triggers[k])]
             sorted == cli_sort(combined_df)
         IN  [kind |-> "combined", error |-> FALSE,
              rows |-> [k \in 1..Len(sorted) |->
                  [format |-> "dms",
                   week |-> sorted[k].week,
                   seconds |-> FormatFixed(sorted[k].seconds, 3),
                   lat_d |-> sorted[k].lat_d, lat_m |-> sorted[k].lat_m,
                   lat_s |-> FormatFixed(sorted[k].lat_s, 9),
                   lon_d |-> sorted[k].lon_d, lon_m |-> sorted[k].lon_m,
                   lon_s |-> FormatFixed(sorted[k].lon_s, 9),
                   height |-> FormatFixed(sorted[k].height, 4),
                   interpolated |-> sorted[k].interpolated]]]

-----------------------------------------------------------------------------
(* The inputs of the model *)

MaxEvents == 4      \* the most triggers of an event log
MaxWindow == 2      \* the largest window_size beside the default
MaxCoord == 3       \* the largest latitude of a direct interpolation
MaxPoints == 3      \* the most points of a direct interpolation
MaxSpacing == 2     \* the largest spacing of a uniform sequence
MaxRemoved == 3     \* the most triggers removed from a uniform sequence
MaxLead == 4        \* the most distances ahead of the first full window

DefaultWindowSize == 10

Factors == {Num(1), Q(3, 2)}

DefaultConfig ==
    [window_size |-> DefaultWindowSize, max_interval_factor |-> Q(3, 2)]

\* pd.DataFrame(): no interpolated trigger
EmptyFrame ==
    [error |-> FALSE, sorted |-> <<>>, distances |-> <<>>,
     passes |-> <<>>, triggers |-> <<>>]

RECURSIVE SumTo(_, _)
SumTo(steps, k) == IF k = 0 THEN 0 ELSE steps[k] + SumTo(steps, k - 1)

Reverse(s) == [k \in 1..Len(s) |-> s[Len(s) + 1 - k]]

\* the distances between consecutive triggers of a flight, in degrees
StepChoices == {0, 2, 5, 6}

Flights == UNION {[1..m -> StepChoices] : m \in 0..(MaxEvents - 1)}

\* the k-th trigger of a flight: one trigger every 2 s
EventLine(steps, k, week, ntok) ==
    [kind |-> "gps", ntok |-> ntok, week |-> week,
     seconds |-> Num(2 * (k - 1)),
     lat_d |-> SumTo(steps, k - 1), lat_m |-> 0, lat_s |-> Num(0),
     lon_d |-> 77, lon_m |-> 0, lon_s |-> Num(0),
     height |-> Num(100 + 4 * k)]

Comment == [kind |-> "comment"]
Short == [kind |-> "short"]

\* the event logs: a flight's triggers in the order of time; in the reverse
\* order, with a line of too few tokens and a line without height; with the
\* last, or the first, trigger in the next GPS week
EventFiles ==
    UNION {
        LET n == Len(steps) + 1
            InTime(week(_)) ==
                [k \in 1..n |-> EventLine(steps, k, week(k), 9)]
        IN  { [header |-> "dms",
               lines |-> <<Comment>> \o InTime(LAMBDA k : 1)],
              [header |-> "dms",
               lines |-> <<Comment, Short>> \o
                         Reverse([k \in 1..n |->
                             EventLine(steps, k, 1,
                                       IF k = 1 THEN 8 ELSE 9)])],
              [header |-> "dms",
               lines |-> InTime(LAMBDA k : IF k = n THEN 2 ELSE 1)],
              [header |-> "dms",
               lines |-> InTime(LAMBDA k : IF k = 1 THEN 2 ELSE 1)] }
        : steps \in Flights }

PosLine(sec, lat) ==
    [kind |-> "gps", ntok |-> 19, week |-> 1, seconds |-> Num(sec),
     lat_d |-> lat, lat_m |-> 0, lat_s |-> Num(0),
     lon_d |-> 77, lon_m |-> 0, lon_s |-> Num(0),
     height |-> Num(50 + sec)]

\* a line of the decimal format, sec seconds into GPS week 1
CalendarLine(sec, lat) ==
    [kind |-> "calendar",
     delta |-> [days |-> 7, seconds |-> sec, microseconds |-> 0],
     lat |-> lat, lon |-> Num(77), height |-> Num(50 + sec)]

\* the position logs: one sample only; a track in the reverse order of time;
\* a track that stands still at its end; two tracks of the decimal format,
\* one with its header and one without
PosFiles ==
    { [header |-> "dms", lines |-> <<Comment, PosLine(3, 1)>>],
      [header |-> "none",
       lines |-> <<PosLine(8, 12), PosLine(7, 11), PosLine(6, 9),
                   PosLine(5, 8), PosLine(4, 5), PosLine(3, 4),
                   PosLine(2, 2)>>],
      [header |-> "dms",
       lines |-> <<Comment, PosLine(4, 3), PosLine(5, 4), PosLine(6, 4)>>],
      [header |-> "deg",
       lines |-> <<Comment, CalendarLine(2, Num(2)), CalendarLine(4, Q(11, 2)),
                   CalendarLine(6, Num(9))>>],
      [header |-> "none",
       lines |-> <<CalendarLine(4, Num(5)), CalendarLine(5, Q(11, 2))>>] }

-----------------------------------------------------------------------------
(* The TriggerFixer: load_position_data, load_events_data and
   find_missing_triggers as process_files calls them, then the export *)

Init ==
    /\ config \in [window_size : 1..MaxWindow, max_interval_factor : Factors]
    /\ input_format = "unset"
    /\ pos_data = <<>>
    /\ events_data = <<>>
    /\ interpolated_data = EmptyFrame
    /\ output = [kind |-> "none"]
    /\ call = [op |-> "init"]
    /\ pc = "new"

LoadPositionData ==
    /\ pc \in {"new", "pos"}
    /\ \E file \in PosFiles :
        /\ input_format' = detect_format(file)
        /\ pos_data' = load_position_data(file)
        /\ call' = [op |-> "load_position_data", file |-> file]
    /\ pc' = "pos"
    /\ UNCHANGED <<config, events_data, interpolated_data, output>>

LoadEventsData ==
    /\ pc \in {"new", "pos"}
    /\ \E file \in EventFiles :
        /\ events_data' = load_events_data(file)
        /\ call' = [op |-> "load_events_data", file |-> file]
    /\ pc' = "events"
    /\ UNCHANGED <<config, input_format, pos_data, interpolated_data, output>>

FindMissingTriggers ==
    /\ pc = "events"
    /\ input_format # "unset"
    /\ interpolated_data' = find_missing_triggers(events_data, pos_data, config)
    /\ pc' = IF interpolated_data'.error THEN "failed" ELSE "found"
    /\ call' = [op |-> "find_missing_triggers"]
    /\ UNCHANGED <<config, input_format, pos_data, events_data, output>>

FormatForEventsExport ==
    /\ pc \in {"events", "found"}
    /\ output' = format_for_events_export(events_data,
                                          interpolated_data.triggers,
                                          input_format)
    /\ pc' = "exported"
    /\ call' = [op |-> "format_for_events_export"]
    /\ UNCHANGED <<config, input_format, pos_data, events_data,
                   interpolated_data>>

WriteCombinedEvents ==
    /\ pc = "found"
    /\ output' = cli_combined_events(events_data, interpolated_data.triggers)
    /\ pc' = "written"
    /\ call' = [op |-> "main"]
    /\ UNCHANGED <<config, input_format, pos_data, events_data,
                   interpolated_data>>

Next ==
    \/ LoadPositionData
    \/ LoadEventsData
    \/ FindMissingTriggers
    \/ FormatForEventsExport
    \/ WriteCombinedEvents

Spec == Init /\ [][Next]_vars

-----------------------------------------------------------------------------
(* interpolate_positions_by_distance applied to a start event at latitude 1
   and time 0, an end event at time 2, and every position track of samples
   at the times 0, 1, 2 (in range) and 3 (out of range), listed in the
   reverse order of time; and applied to a start event at (0, 0) and an end
   event at the pole (90, 90) with at most one sample in range *)

SampleTimes == {0, 1, 2, 3}

\* lat[t] is the latitude of the sample at time t, -1 for no sample at t
TrackOf(lat) ==
    LET at(t) == [seconds |-> Num(t), lat |-> Num(lat[t]), lon |-> Num(77),
                  height |-> Num(50 + t)]
        all == <<at(3), at(2), at(1), at(0)>>
    IN  SelectSeq(all, LAMBDA p : p.lat # Num(-1))

MeridianCalls ==
    { [op |-> "interpolate_positions_by_distance",
       start_pos |-> [lat |-> Num(1), lon |-> Num(77),
                      height |-> Num(100), seconds |-> Num(0)],
       end_pos |-> [lat |-> Num(b), lon |-> Num(77),
                    height |-> Num(104), seconds |-> Num(2)],
       num_points |-> n,
       pos |-> TrackOf(lat)] :
      b \in 0..MaxCoord, n \in 1..MaxPoints,
      lat \in [SampleTimes -> (-1)..MaxCoord] }

\* one point between (0, 0) and the pole; the track has a sample at (45, 45)
\* in range, a sample at the pole out of range, both or none
DiagonalCalls ==
    { [op |-> "interpolate_positions_by_distance",
       start_pos |-> [lat |-> Num(0), lon |-> Num(0),
                      height |-> Num(100), seconds |-> Num(0)],
       end_pos |-> [lat |-> Num(90), lon |-> Num(90),
                    height |-> Num(104), seconds |-> Num(2)],
       num_points |-> 1,
       pos |-> SelectSeq(
                 <<[seconds |-> Num(3), lat |-> Num(90), lon |-> Num(90),
                    height |-> Num(53)],
                   [seconds |-> Num(1), lat |-> Num(45), lon |-> Num(45),
                    height |-> Num(51)]>>,
                 LAMBDA p : p.seconds \in kept)] :
      kept \in SUBSET {Num(1), Num(3)} }

InterpolationCalls == MeridianCalls \cup DiagonalCalls

InitInterpolate ==
    /\ config = DefaultConfig
    /\ input_format = "unset"
    /\ pos_data = <<>>
    /\ events_data = <<>>
    /\ interpolated_data = EmptyFrame
    /\ output = [kind |-> "none"]
    /\ call \in InterpolationCalls
    /\ pc = "call"

Interpolate ==
    /\ pc = "call"
    /\ call.op = "interpolate_positions_by_distance"
    /\ output' = interpolate_positions_by_distance(
                     call.start_pos, call.end_pos, call.num_points, call.pos)
    /\ pc' = "return"
    /\ UNCHANGED <<config, input_format, pos_data, events_data,
                   interpolated_data, call>>

SpecInterpolate == InitInterpolate /\ [][Interpolate]_vars

-----------------------------------------------------------------------------
(* find_missing_triggers applied to a uniform sequence: triggers every 2 s
   at the spacing d, of which `removed` consecutive ones are missing after
   `lead` + 1 triggers, `tail` + 1 triggers following; the events are given
   in the reverse order of time and there is no position sample *)

UniformEvents(d, removed, lead, tail) ==
    Reverse([k \in 1..(lead + 2 + tail) |->
        LET j == IF k <= lead + 1 THEN k - 1 ELSE k - 1 + removed
        IN  [week |-> 1, seconds |-> Num(2 * j),
             lat_d |-> d * j, lat_m |-> 0, lat_s |-> Num(0),
             lon_d |-> 77, lon_m |-> 0, lon_s |-> Num(0),
             height |-> Num(100),
             timestamp |-> gps_to_datetime(1, FFromInt(2 * j)),
             lat |-> Exact(dms_to_decimal(d * j, 0, FZero)),
             lon |-> Exact(dms_to_decimal(77, 0, FZero))]])

UniformCalls ==
    { [op |-> "find_missing_triggers",
       d |-> d, removed |-> r, lead |-> w + x, tail |-> t,
       window_size |-> w, max_interval_factor |-> f] :
      d \in 1..MaxSpacing, r \in 1..MaxRemoved,
      w \in (1..MaxWindow) \cup {DefaultWindowSize},
      x \in 0..MaxLead, t \in {0, 1, 12}, f \in Factors }

InitUniform ==
    /\ call \in UniformCalls
    /\ config = [window_size |-> call.window_size,
                 max_interval_factor |-> call.max_interval_factor]
    /\ input_format = "unset"
    /\ pos_data = <<>>
    /\ events_data = UniformEvents(call.d, call.removed, call.lead, call.tail)
    /\ interpolated_data = EmptyFrame
    /\ output = [kind |-> "none"]
    /\ pc = "call"

FindUniform ==
    /\ pc = "call"
    /\ call.op = "find_missing_triggers"
    /\ interpolated_data' = find_missing_triggers(events_data, pos_data, config)
    /\ pc' = "return"
    /\ UNCHANGED <<config, input_format, pos_data, events_data, output, call>>

SpecUniform == InitUniform /\ [][FindUniform]_vars

-----------------------------------------------------------------------------
(* The conversions of GeoConvert applied one after the other: a GPS time to
   a datetime and back, a datetime to a GPS time and back, and degrees,
   minutes and seconds to decimal degrees and back *)

MaxWeek == 2        \* the largest GPS week of a conversion
MaxDegrees == 2     \* the largest degrees of a conversion

\* seconds of the week: 0, 1/2, 2^-21 and 2^-20 (below and above half a
\* microsecond), 0.001, 123456.789, 604799, 604799.5, 604800 - 2^-19 and
\* 604800 - 2^-21 (less than half a microsecond before the end of the
\* week); and 604801.5, beyond the week
ConvertSeconds ==
    { FZero, Dyadic(1, 1), Dyadic(1, 21), Dyadic(1, 20),
      Float(<<1, 1000>>), FAdd(FFromInt(123456), Float(<<789, 1000>>)),
      FFromInt(SecondsPerWeek - 1),
      FSub(FFromInt(SecondsPerWeek), Dyadic(1, 1)),
      FSub(FFromInt(SecondsPerWeek), Dyadic(1, 19)),
      FSub(FFromInt(SecondsPerWeek), Dyadic(1, 21)),
      FAdd(FFromInt(SecondsPerWeek + 1), Dyadic(1, 1)) }

GpsCalls ==
    { [op |-> "gps_to_datetime", week |-> w, seconds |-> s] :
      w \in 0..MaxWeek, s \in ConvertSeconds }

\* datetimes from the GPS epoch on, to the microsecond
DatetimeCalls ==
    { [op |-> "_datetime_to_gps",
       delta |-> [days |-> d, seconds |-> s, microseconds |-> u]] :
      d \in 0..(7 * MaxWeek), s \in {0, SecondsPerDay - 1},
      u \in {0, 1, 123456, 500000, 999999} }

\* minutes 0, 1, 4, 30, 59 and seconds 0, 0.001, 12.5, 30, 59.999
DmsCalls ==
    { [op |-> "dms_to_decimal", d |-> d, m |-> m, s |-> s] :
      d \in 0..MaxDegrees, m \in {0, 1, 4, 30, 59},
      s \in { FZero, Float(<<1, 1000>>), Float(<<25, 2>>), FFromInt(30),
              Float(<<59999, 1000>>) } }

InitConvert ==
    /\ config = DefaultConfig
    /\ input_format = "unset"
    /\ pos_data = <<>>
    /\ events_data = <<>>
    /\ interpolated_data = EmptyFrame
    /\ output = [kind |-> "none"]
    /\ call \in GpsCalls \cup DatetimeCalls \cup DmsCalls
    /\ pc = "call"

\* a datetime and the GPS time of it
gps_of(datetime) == [datetime |-> datetime, gps |-> datetime_to_gps(datetime)]

\* a GPS time and the datetime of it
datetime_of(gps) ==
    [gps |-> gps, datetime |-> gps_to_datetime(gps.week, gps.seconds)]

\* decimal degrees and the degrees, minutes and seconds of them
dms_of(decimal) == [decimal |-> decimal, dms |-> decimal_to_dms(decimal)]

\* _datetime_to_gps(gps_to_datetime(week, seconds))
GpsRoundTrip ==
    /\ pc = "call"
    /\ call.op = "gps_to_datetime"
    /\ output' = gps_of(gps_to_datetime(call.week, call.seconds))
    /\ pc' = "return"
    /\ UNCHANGED <<config, input_format, pos_data, events_data,
                   interpolated_data, call>>

\* gps_to_datetime(_datetime_to_gps(T)) for T = gps_epoch + delta
DatetimeRoundTrip ==
    /\ pc = "call"
    /\ call.op = "_datetime_to_gps"
    /\ output' = datetime_of(datetime_to_gps(call.delta))
    /\ pc' = "return"
    /\ UNCHANGED <<config, input_format, pos_data, events_data,
                   interpolated_data, call>>

\* _decimal_to_dms(dms_to_decimal(d, m, s))
DmsRoundTrip ==
    /\ pc = "call"
    /\ call.op = "dms_to_decimal"
    /\ output' = dms_of(dms_to_decimal(call.d, call.m, call.s))
    /\ pc' = "return"
    /\ UNCHANGED <<config, input_format, pos_data, events_data,
                   interpolated_data, call>>

NextConvert ==
    \/ GpsRoundTrip
    \/ DatetimeRoundTrip
    \/ DmsRoundTrip

SpecConvert == InitConvert /\ [][NextConvert]_vars

-----------------------------------------------------------------------------
(* The claims *)

\* the passes of the window loop that called the interpolator
Gaps(found) == SelectSeq(found.passes, LAMBDA p : p.kind = "gap")

\* C1: on a uniform sequence (constant spacing d > 0, `removed` >= 1
\* consecutive interior triggers missing, at least window_size distances
\* ahead of the enlarged pair) find_missing_triggers ends without error and
\* flags one boundary only, in one window only: the enlarged pair, between
\* the sorted triggers `lead` and `lead` + 1, with num_missing = removed,
\* and returns that many triggers.
C1_UniformGap ==
    pc = "return" =>
        /\ ~interpolated_data.error
        /\ Len(interpolated_data.passes) = 1
        /\ interpolated_data.passes[1].kind = "gap"
        /\ interpolated_data.passes[1].start_idx = call.lead
        /\ interpolated_data.passes[1].window = call.lead - call.window_size
        /\ interpolated_data.passes[1].num_missing = call.removed
        /\ Len(interpolated_data.triggers) = call.removed

\* the spec's case: 30 triggers, those at 15 and 16 removed, window_size 10
C1_Witness ==
    /\ pc = "return"
    /\ call.window_size = DefaultWindowSize
    /\ call.lead = 14 /\ call.removed = 2 /\ call.tail = 12
    /\ Len(events_data) = 28
    /\ Len(Gaps(interpolated_data)) = 1
    /\ Gaps(interpolated_data)[1].num_missing = 2


\* find_missing_triggers was applied and what it left is in interpolated_data
Searched == pc \in {"found", "failed", "exported", "written"}

\* round(current_distance / median_distance) - 1 of a flagged pass, from the
\* distances the pass read
Estimate(p) ==
    RoundHalfEven(RDiv(p.current_distance, p.median_distance)) - 1

\* C2: every pass of the window loop that calls the interpolator has
\* num_missing >= 1, and a flagged boundary whose rounded estimate is <= 0
\* calls no interpolation; when no pass calls it, no trigger is returned.
C2_MissingCountPositive ==
    /\ \A k \in 1..Len(interpolated_data.passes) :
        LET p == interpolated_data.passes[k]
        IN  /\ p.kind = "gap" =>
                /\ p.num_missing >= 1
                /\ p.num_missing = Estimate(p)
                /\ Len(p.result.points) >= 1
            /\ (p.kind # "error" /\ Estimate(p) <= 0) => p.kind = "dropped"
            /\ p.kind = "dropped" => p.num_missing <= 0
    /\ Gaps(interpolated_data) = <<>> => interpolated_data.triggers = <<>>

\* a run in which one flagged boundary is dropped (its estimate is 0) and
\* another one is interpolated
C2_Witness ==
    /\ pc = "found"
    /\ \E k \in 1..Len(interpolated_data.passes) :
        /\ interpolated_data.passes[k].kind = "dropped"
        /\ interpolated_data.passes[k].num_missing = 0
    /\ \E k \in 1..Len(interpolated_data.passes) :
        interpolated_data.passes[k].kind = "gap"

\* the trigger t lies between the sorted triggers a and b in time
PlacedBetween(t, a, b) ==
    /\ RLe(interpolated_data.sorted[a].seconds, t.seconds)
    /\ RLe(t.seconds, interpolated_data.sorted[b].seconds)

\* C3: every gap starts at a sorted index (from 0) >= window_size, no
\* interpolated trigger lies in time between two triggers whose sorted
\* indices are both below window_size, and a sequence of at most
\* window_size + 1 triggers gives no trigger and no error.
C3_NoGapInFirstWindow ==
    /\ \A k \in 1..Len(interpolated_data.passes) :
        interpolated_data.passes[k].kind = "gap" =>
            interpolated_data.passes[k].start_idx >= config.window_size
    /\ \A k \in 1..Len(interpolated_data.triggers) :
        \A a, b \in 1..config.window_size :
            a < b /\ b <= Len(interpolated_data.sorted) =>
                ~PlacedBetween(interpolated_data.triggers[k], a, b)
    /\ (Searched /\ Len(events_data) <= config.window_size + 1) =>
        /\ pc # "failed"
        /\ interpolated_data.triggers = <<>>

\* a gap right behind the first window, the earliest there can be
C3_Witness ==
    /\ pc = "found"
    /\ config.window_size = 2
    /\ \E k \in 1..Len(interpolated_data.passes) :
        /\ interpolated_data.passes[k].kind = "gap"
        /\ interpolated_data.passes[k].start_idx = config.window_size
    /\ interpolated_data.triggers # <<>>

\* the samples of the call's track whose time is in the gap's time range
SamplesInRange ==
    SelectSeq(call.pos, LAMBDA p : /\ RGe(p.seconds, call.start_pos.seconds)
                                   /\ RLe(p.seconds, call.end_pos.seconds))

\* C4: with at least 2 samples in range, for every i in 1..N the index found
\* is the smallest one whose cumulative distance is >= the target, and the
\* ratio is in [0, 1], so that the point lies between the samples idx - 1
\* and idx (cum[k] of the program is output.cum[k + 1]).
C4_OnRecordedPath ==
    (pc = "return" /\ Len(SamplesInRange) >= 2) =>
        /\ output.branch = "path"
        /\ \A i \in 1..call.num_points :
            LET step == output.steps[i]
            IN  /\ RGe(output.cum[step.idx + 1], step.target)
                /\ \A k \in 0..(step.idx - 1) :
                       ~RGe(output.cum[k + 1], step.target)
                /\ step.idx >= 1 =>
                       /\ RGe(step.ratio, Num(0))
                       /\ RLe(step.ratio, Num(1))

\* C5: with at most one sample in range the points returned are, for
\* i = 1..N, the values v with (N + 1) * v = (N + 1 - i) * start + i * end
\* for lat, lon, height and seconds: the straight-line interpolation at
\* i / (N + 1), whatever the track holds.
C5_FallbackIsLinear ==
    (pc = "return" /\ Len(SamplesInRange) <= 1) =>
        /\ output.branch = "fallback"
        /\ Len(output.points) = call.num_points
        /\ \A i \in 1..call.num_points :
            \A f \in {"lat", "lon", "height", "seconds"} :
                RMul(Num(call.num_points + 1), output.points[i][f]) =
                    RAdd(RMul(Num(call.num_points + 1 - i), call.start_pos[f]),
                         RMul(Num(i), call.end_pos[f]))

\* the fallback taken with one sample in range that lies off the straight
\* line, three points asked for between distinct latitudes
C5_Witness ==
    /\ pc = "return"
    /\ Len(SamplesInRange) = 1
    /\ call.num_points = 3
    /\ call.start_pos.lat # call.end_pos.lat
    /\ SamplesInRange[1].lat = Num(0)
    /\ output.branch = "fallback"
    /\ output.points[1].lat # output.points[2].lat

\* the point the i-th point of a fill follows: the start event for the first
Preceding(i) == IF i = 1 THEN call.start_pos ELSE output.points[i - 1]

\* the distance of the i-th point from the point it follows
FromPreceding(i) ==
    haversine_distance(Preceding(i).lat, Preceding(i).lon,
                       output.points[i].lat, output.points[i].lon)

\* C6 as claimed: in both branches every point's distance_from_prev is its
\* distance from the point it follows, the start event for the first one.
C6_FromPrecedingPoint ==
    pc = "return" =>
        \A i \in 1..call.num_points :
            output.points[i].distance_from_prev = FromPreceding(i)

\* C6: in the path-following branch every point's distance_from_prev, and in
\* the fallback that of every point but the first, is its distance from the
\* point it follows (the start event for the first point); the first point
\* of the fallback carries haversine(start, end) / (N + 1).
C6_FromPrecedingOrSegment ==
    pc = "return" =>
        \A i \in 1..call.num_points :
            output.points[i].distance_from_prev =
                IF output.branch = "fallback" /\ i = 1
                THEN RDiv(haversine_distance(
                              call.start_pos.lat, call.start_pos.lon,
                              call.end_pos.lat, call.end_pos.lon),
                          Num(call.num_points + 1))
                ELSE FromPreceding(i)

\* a fill of 3 points by the fallback whose second point is nearer to the
\* point it follows than to the start event
C6_Witness ==
    /\ pc = "return"
    /\ output.branch = "fallback"
    /\ call.num_points = 3
    /\ RGt(output.points[2].distance_from_prev, Num(0))
    /\ RLt(output.points[2].distance_from_prev,
           haversine_distance(call.start_pos.lat, call.start_pos.lon,
                              output.points[2].lat, output.points[2].lon))

\* the rows s are in the order of time: non-decreasing in seconds
NonDecreasing(s) ==
    \A k \in 1..(Len(s) - 1) : RLe(s[k].seconds, s[k + 1].seconds)

\* the rows of s, in whatever order
Rows(s) == {s[k] : k \in 1..Len(s)}

\* C7 as claimed: what load_events_data and load_position_data return is
\* non-decreasing in seconds, for every order of the input lines.
C7_LoadedInTimeOrder ==
    NonDecreasing(events_data) /\ NonDecreasing(pos_data)

\* C7: find_missing_triggers computes its distances on the loaded triggers
\* sorted by seconds, and every interpolation it calls computes on the
\* samples of the gap's time range sorted by seconds: both sequences are
\* non-decreasing in seconds and hold the loaded rows, and each distance is
\* that of two neighbours of the sorted sequence.
C7_SortedWhereUsed ==
    pc \in {"found", "failed"} =>
        LET found == interpolated_data
        IN  /\ NonDecreasing(found.sorted)
            /\ Len(found.sorted) = Len(events_data)
            /\ Rows(found.sorted) = Rows(events_data)
            /\ Len(found.distances) = Len(found.sorted) - 1
            /\ \A k \in 1..Len(found.distances) :
                found.distances[k] =
                    haversine_distance(found.sorted[k].lat,
                                       found.sorted[k].lon,
                                       found.sorted[k + 1].lat,
                                       found.sorted[k + 1].lon)
            /\ \A g \in 1..Len(Gaps(found)) :
                LET p == Gaps(found)[g]
                    rel == p.result.relevant
                IN  /\ NonDecreasing(rel)
                    /\ Len(rel) =
                         Len(SelectSeq(pos_data, LAMBDA s :
                               /\ RGe(s.seconds, p.start_pos.seconds)
                               /\ RLe(s.seconds, p.end_pos.seconds)))
                    /\ \A k \in 1..Len(rel) :
                         \E j \in 1..Len(pos_data) :
                            /\ pos_data[j].seconds = rel[k].seconds
                            /\ pos_data[j].lat = rel[k].lat
                    /\ p.result.branch = "path" =>
                         \A k \in 1..(Len(rel) - 1) :
                            RSub(p.result.cum[k + 1], p.result.cum[k]) =
                                haversine_distance(rel[k].lat, rel[k].lon,
                                                   rel[k + 1].lat,
                                                   rel[k + 1].lon)

\* both logs were loaded out of the order of time and a gap was filled along
\* the samples of its time range
C7_Witness ==
    /\ pc = "found"
    /\ ~NonDecreasing(events_data)
    /\ ~NonDecreasing(pos_data)
    /\ \E g \in 1..Len(Gaps(interpolated_data)) :
        /\ Gaps(interpolated_data)[g].result.branch = "path"
        /\ Len(Gaps(interpolated_data)[g].result.relevant) >= 3

\* the row r of the export is the row of the trigger t (week and seconds in
\* the DMS format, date and time in the decimal format)
RowOf(r, t) ==
    IF r.format = "dms"
    THEN r.week = t.week /\ r.seconds = FormatFixed(t.seconds, 3)
    ELSE r.date_time = CutToMillis(gps_to_datetime(t.week, Float(t.seconds)))

\* the row a is not behind the row b in the order of (week, seconds)
NotBehind(a, b) ==
    IF a.format = "dms"
    THEN a.week < b.week \/ (a.week = b.week /\ RLe(a.seconds, b.seconds))
    ELSE LET key(t) == <<t.days, t.seconds, t.milliseconds>>
         IN  \/ key(a.date_time) = key(b.date_time)
             \/ \E k \in 1..3 :
                    /\ key(a.date_time)[k] < key(b.date_time)[k]
                    /\ \A j \in 1..(k - 1) :
                           key(a.date_time)[j] = key(b.date_time)[j]

\* C8: format_for_events_export returns the rows in non-decreasing
\* (week, seconds) order, every original trigger once with interpolated =
\* false and every interpolated trigger once.
C8_MergedInOrder ==
    pc = "exported" =>
        /\ ~output.error
        /\ Len(output.rows) =
               Len(events_data) + Len(interpolated_data.triggers)
        /\ \A k \in 1..(Len(output.rows) - 1) :
               NotBehind(output.rows[k], output.rows[k + 1])
        /\ \A k \in 1..Len(events_data) :
               Cardinality({j \in 1..Len(output.rows) :
                   /\ RowOf(output.rows[j], events_data[k])
                   /\ ~output.rows[j].interpolated}) = 1
        /\ \A k \in 1..Len(interpolated_data.triggers) :
               Cardinality({j \in 1..Len(output.rows) :
                   /\ RowOf(output.rows[j], interpolated_data.triggers[k])
                   /\ output.rows[j].interpolated}) = 1

\* C9: whatever position logs were loaded before the event log,
\* format_for_events_export writes the header and the rows of the DMS format.
C9_ExportIsDms ==
    pc = "exported" =>
        /\ output.format = "dms"
        /\ output.header = "dms"
        /\ \A k \in 1..Len(output.rows) : output.rows[k].format = "dms"

\* the row r carries the week, seconds, DMS latitude and longitude and the
\* height of the trigger e
SameEvent(r, e) ==
    /\ r.format = "dms"
    /\ r.week = e.week
    /\ r.seconds = FormatFixed(e.seconds, 3)
    /\ r.lat_d = e.lat_d /\ r.lat_m = e.lat_m
    /\ r.lat_s = FormatFixed(e.lat_s, 9)
    /\ r.lon_d = e.lon_d /\ r.lon_m = e.lon_m
    /\ r.lon_s = FormatFixed(e.lon_s, 9)
    /\ r.height = FormatFixed(e.height, 4)

\* C10: when no trigger was interpolated, the combined output is produced
\* without error, its rows are the original events, one row each with the
\* event's week, seconds, DMS coordinates and height, and no row is marked
\* interpolated.
C10_NoGapsSameEvents ==
    (pc \in {"exported", "written"} /\ interpolated_data.triggers = <<>>) =>
        /\ output.kind # "none"
        /\ ~output.error
        /\ Len(output.rows) = Len(events_data)
        /\ \A k \in 1..Len(events_data) :
               Cardinality({j \in 1..Len(output.rows) :
                   SameEvent(output.rows[j], events_data[k])}) = 1
        /\ \A j \in 1..Len(output.rows) : ~output.rows[j].interpolated

\* find_missing_triggers was applied last
Found == pc \in {"found", "failed"}

\* the windows of the run that flagged the boundary behind the sorted
\* trigger of index start_idx (from 0)
FlaggedBy(start_idx) ==
    {k \in 1..Len(interpolated_data.passes) :
        interpolated_data.passes[k].start_idx = start_idx}

\* C13 as claimed, on the boundaries that lie inside a later window of the
\* run: such a boundary, once flagged, is flagged by more than one window.
C13_BoundaryFlaggedTwice ==
    pc = "found" =>
        \A k \in 1..Len(interpolated_data.passes) :
            LET p == interpolated_data.passes[k]
            IN  p.window + 1 <= Len(interpolated_data.distances)
                                    - config.window_size
                    => Cardinality(FlaggedBy(p.start_idx)) > 1

\* C13: the windows are processed in increasing i without deduplication,
\* and the window i tests the one boundary i + window_size: the flagged
\* passes of a run have increasing windows and distinct boundaries, each
\* read the distance of its own boundary, and no boundary is interpolated
\* by more than one pass.
C13_EachBoundaryOnce ==
    Found =>
        /\ \A j, k \in 1..Len(interpolated_data.passes) :
               j < k =>
                   /\ interpolated_data.passes[j].window <
                          interpolated_data.passes[k].window
                   /\ interpolated_data.passes[j].start_idx <
                          interpolated_data.passes[k].start_idx
        /\ \A k \in 1..Len(interpolated_data.passes) :
               LET p == interpolated_data.passes[k]
               IN  /\ p.start_idx = p.window + config.window_size
                   /\ p.current_distance =
                          interpolated_data.distances[p.start_idx + 1]
                   /\ Cardinality(FlaggedBy(p.start_idx)) = 1
                   /\ p.kind = "gap" =>
                          p.start_pos.seconds =
                              interpolated_data.sorted[p.start_idx + 1].seconds

\* two consecutive windows each flag their boundary, and the boundary the
\* first one interpolated lies inside the second one
C13_Witness ==
    /\ pc = "found"
    /\ \E k \in 1..(Len(interpolated_data.passes) - 1) :
        /\ interpolated_data.passes[k].kind = "gap"
        /\ interpolated_data.passes[k + 1].window =
               interpolated_data.passes[k].window + 1
        /\ interpolated_data.passes[k].start_idx >=
               interpolated_data.passes[k + 1].window
        /\ interpolated_data.passes[k].start_idx <
               interpolated_data.passes[k + 1].start_idx

\* the sum of num_missing over the gaps
RECURSIVE MissingTotal(_)
MissingTotal(gaps) ==
    IF gaps = <<>> THEN 0
    ELSE gaps[1].num_missing + MissingTotal(Tail(gaps))

\* C14: every interpolation returns exactly num_missing points, in the
\* fallback and in the path-following branch, and find_missing_triggers
\* returns as many triggers as the num_missing of its gaps add up to.
C14_ExactlyNPoints ==
    pc = "found" =>
        /\ \A g \in 1..Len(Gaps(interpolated_data)) :
               Len(Gaps(interpolated_data)[g].result.points) =
                   Gaps(interpolated_data)[g].num_missing
        /\ Len(interpolated_data.triggers) =
               MissingTotal(Gaps(interpolated_data))

\* a run with a gap of 2 points filled along the samples
C14_Witness ==
    /\ pc = "found"
    /\ \E g \in 1..Len(Gaps(interpolated_data)) :
        /\ Gaps(interpolated_data)[g].result.branch = "path"
        /\ Gaps(interpolated_data)[g].num_missing = 2
    /\ Len(interpolated_data.triggers) = 2

\* C15: every interpolated trigger has the week of its gap's start event
\* and seconds within [start.seconds, end.seconds] of its gap, and the
\* triggers of one gap are non-decreasing in seconds in the order they were
\* appended.
C15_WithinItsGap ==
    pc = "found" =>
        \A g \in 1..Len(Gaps(interpolated_data)) :
            LET p == Gaps(interpolated_data)[g]
                filled == triggers_of(p)
            IN  /\ \A k \in 1..Len(filled) :
                    /\ filled[k].week =
                           interpolated_data.sorted[p.start_idx + 1].week
                    /\ RLe(p.start_pos.seconds, filled[k].seconds)
                    /\ RLe(filled[k].seconds, p.end_pos.seconds)
                /\ NonDecreasing(filled)

\* C16: in the path-following branch, whenever the idx >= 1 case is taken
\* cum[idx] - cum[idx - 1] is strictly positive, for every track and every
\* i in 1..N (cum[k] of the program is output.cum[k + 1]).
C16_NoZeroSegment ==
    (pc = "return" /\ output.branch = "path") =>
        \A i \in 1..call.num_points :
            LET idx == output.steps[i].idx
            IN  idx >= 1 =>
                    /\ RGt(RSub(output.cum[idx + 1], output.cum[idx]), Num(0))
                    /\ IsFinite(output.steps[i].ratio)

\* C17: whenever a boundary is flagged the window's median_distance is
\* strictly positive, the quotient is finite, and the run ends without
\* error.
C17_MedianPositive ==
    Searched =>
        /\ pc # "failed"
        /\ ~interpolated_data.error
        /\ \A k \in 1..Len(interpolated_data.passes) :
            LET p == interpolated_data.passes[k]
            IN  /\ RGt(p.median_distance, Num(0))
                /\ IsFinite(RDiv(p.current_distance, p.median_distance))

\* C18: in an interpolation that find_missing_triggers calls, the scan
\* ends at idx >= 1 for every i in 1..N: the idx = 0 case is never taken.
C18_NeverFirstSample ==
    Found =>
        \A g \in 1..Len(Gaps(interpolated_data)) :
            LET r == Gaps(interpolated_data)[g].result
            IN  /\ RGt(Gaps(interpolated_data)[g].current_distance, Num(0))
                /\ r.branch = "path" =>
                       /\ Len(r.steps) = Gaps(interpolated_data)[g].num_missing
                       /\ \A i \in 1..Len(r.steps) :
                              /\ r.steps[i].idx >= 1
                              /\ RGt(r.steps[i].target, r.cum[1])

\* a gap filled along the samples, the first of which lies at the target
\* of the first point or beyond it
C18_Witness ==
    /\ pc = "found"
    /\ \E g \in 1..Len(Gaps(interpolated_data)) :
        LET r == Gaps(interpolated_data)[g].result
        IN  /\ r.branch = "path"
            /\ Len(r.cum) >= 3
            /\ RGe(r.cum[2], r.steps[1].target)
            /\ r.steps[1].idx = 1

\* C19: with max_interval_factor = 1.5 every flagged boundary whose window
\* median is positive has num_missing = round(quotient) - 1 >= 1 and is
\* interpolated; a flagged boundary is dropped only when the factor is
\* below 1.5.
C19_DefaultNeverSuppresses ==
    Found =>
        \A k \in 1..Len(interpolated_data.passes) :
            LET p == interpolated_data.passes[k]
            IN  /\ (config.max_interval_factor = Q(3, 2)
                     /\ RGt(p.median_distance, Num(0))) =>
                        /\ p.kind = "gap"
                        /\ p.num_missing = Estimate(p)
                        /\ p.num_missing >= 1
                /\ p.kind = "dropped" =>
                        RLt(config.max_interval_factor, Q(3, 2))

\* factor 1.5: a boundary whose quotient is between 1.5 and 2 is filled
\* with one point
C19_Witness ==
    /\ pc = "found"
    /\ config.max_interval_factor = Q(3, 2)
    /\ \E k \in 1..Len(interpolated_data.passes) :
        LET p == interpolated_data.passes[k]
        IN  /\ p.kind = "gap"
            /\ RLt(RDiv(p.current_distance, p.median_distance), Num(2))
            /\ p.num_missing = 1

\* a conversion and its inverse were applied to the call's arguments
Converted(op) == pc = "return" /\ call.op = op

\* C11 as claimed: gps_to_datetime(_datetime_to_gps(T)) is T within 1 ms,
\* and _datetime_to_gps(gps_to_datetime(week, sow)) has the same week and
\* the seconds of the week within 1e-3 s, for every (week, sow).
C11_SameWeekAndSeconds ==
    /\ Converted("_datetime_to_gps") => output.datetime = call.delta
    /\ Converted("gps_to_datetime") =>
           /\ output.gps.week = call.week
           /\ FWithin(output.gps.seconds, call.seconds, 3)

\* C11: gps_to_datetime(_datetime_to_gps(T)) is T, to the microsecond, for
\* every datetime T from the epoch on; _datetime_to_gps(gps_to_datetime(
\* week, sow)) is the same GPS time within 1e-3 s for every week >= 0 and
\* sow >= 0, with seconds below 604800: the same week and the seconds within
\* 1e-3 s when sow is more than 1e-3 s before the end of the week, and a
\* later week with the seconds counted from its start otherwise.
C11_SameGpsTime ==
    /\ Converted("_datetime_to_gps") => output.datetime = call.delta
    /\ Converted("gps_to_datetime") =>
           LET later == output.gps.week - call.week
           IN  /\ later >= 0
               /\ FLt(output.gps.seconds, FFromInt(SecondsPerWeek))
               /\ FWithin(FAdd(FFromInt(later * SecondsPerWeek),
                               output.gps.seconds),
                          call.seconds, 3)
               /\ later = 0 => FWithin(output.gps.seconds, call.seconds, 3)
               /\ FLt(call.seconds,
                      FSub(FFromInt(SecondsPerWeek), Dyadic(1, 10)))
                      => later = 0

\* seconds less than half a microsecond before the end of the week come
\* back as the start of the next week
C11_Witness ==
    /\ Converted("gps_to_datetime")
    /\ FLt(call.seconds, FFromInt(SecondsPerWeek))
    /\ output.datetime.microseconds = 0
    /\ output.gps = [week |-> call.week + 1, seconds |-> FZero]

\* C12: _decimal_to_dms(dms_to_decimal(d, m, s)) has the degrees d, the
\* minutes m and the seconds s within 1e-9, for every d >= 0, m in 0..59
\* and 0 <= s < 60.
C12_DmsRoundTrip ==
    Converted("dms_to_decimal") =>
        /\ output.dms.d = call.d
        /\ output.dms.m = call.m
        /\ FWithin(output.dms.s, call.s, 9)

=============================================================================
